---------------------------- MODULE Spec2Model ----------------------------
(***************************************************************************)
(* A model of the analysis orchestration of GoodTY/auto_infer:             *)
(*   - InferAnalyzer.run_infer            (src/infer_analyzer.py)          *)
(*   - BatchInferAnalyzer.find_java_projects, run_analysis,                *)
(*     analyze_project, save_summary      (src/batch_infer_analyzer.py)    *)
(*   - get_method_code, convert_json_to_json                               *)
(*                                        (src/generate_bug_report.py)     *)
(*   - BatchInferAnalyzer.detect_java_version                              *)
(*                                        (src/batch_infer_analyzer.py)    *)
(* Seven specifications share the variables; each leaves the variables of  *)
(* the other components at their idle values:                              *)
(*   Spec           run_infer on one project                               *)
(*   SpecDiscovery  one call of find_java_projects                         *)
(*   SpecBatch      one call of run_analysis on a discovered project list  *)
(*   SpecWorker     one call of analyze_project                            *)
(*   SpecExtract    one call of convert_json_to_json                       *)
(*   SpecDetect     one call of detect_java_version                        *)
(*   SpecPair       run_infer called by two threads of one process         *)
(***************************************************************************)
EXTENDS Integers, Sequences, FiniteSets, TLC

VARIABLES
    \* ---- run_infer -------------------------------------------------------
    pc,                 \* position in run_infer
    project_files,      \* what the project directory holds when the run starts
    infer_out_exists,   \* Path("infer-out").exists()
    report_exists,      \* (infer_out / "report.json").exists()
    attempt,            \* loop variable of the running retry loop
    cmd,                \* the build command selected (lines 202-212)
    build_rc,           \* returncode of the wrapped build: -1 before it has run
    result,             \* return value of run_infer: "none" while running
    rmtree_calls,       \* history: shutil.rmtree(infer_out) calls made
    build_calls,        \* history: wrapped build invocations made
    report_calls,       \* history: "infer report" invocations made
    cleared_at,         \* history: rmtree_calls when an attempt first left infer-out
                        \* absent (0: no attempt has)
    cleanup_left_stale, \* history: infer-out existed after the 3rd deletion attempt
    steps,              \* history: the steps of run_infer in the order performed
    \* ---- find_java_projects ---------------------------------------------
    dpc,                \* position in find_java_projects
    cwd,                \* the process's working directory (absolute components)
    directory,          \* the root argument, as the path string given
    descriptors,        \* absolute directories holding pom.xml or build.gradle
    walk_todo,          \* directories os.walk has still to yield (relative to the root)
    root,               \* the directory os.walk yielded last, as a path string
    current_dir,        \* the climbing loop's variable
    processed_paths,    \* set of absolute path strings
    java_projects,      \* the list being returned
    \* ---- run_analysis ----------------------------------------------------
    spc,                \* position of the scheduler (main thread) in run_analysis
    batch_projects,     \* the list find_java_projects returned to run_analysis
    version,            \* detect_java_version of each project
    installed,          \* versions whose /usr/lib/jvm/java-<v>-openjdk-amd64 exists
    max_workers,        \* self.max_workers
    projects_by_java_version, \* the groups, in insertion order
    gidx,               \* index of the group being processed
    sub_idx,            \* projects of the group submitted so far
    future,             \* each project's future: none, pending, running, finished, collected
    outcome,            \* the value each finished future holds
    all_results,        \* the running outcome list
    environ,            \* os.environ: JAVA_HOME and PATH
    env_writes,         \* history: writes of os.environ per version
    exec_count,         \* history: times analyze_project was started per project
    summary,            \* what save_summary persisted
    summary_writes,     \* history: save_summary calls
    faulted,            \* history: projects whose analyze_project raised an exception
    build_home,         \* history: the JAVA_HOME of the env each project's
                        \* builds are given ("none": not started)
    \* ---- analyze_project, one call --------------------------------------
    wpc,                \* position of the call: idle, call, returned
    wfiles,             \* what the project directory holds
    wexits,             \* exit codes the gradle and maven builds would give
    wfault,             \* the build (if any) that cannot be launched
    wresult,            \* what the call returned, with the builds it dispatched
    \* ---- convert_json_to_json --------------------------------------------
    epc,                \* position in convert_json_to_json
    source_lines,       \* f.readlines() of the project's source file
    report_len,         \* len(bug_reports) of the report being converted
    bug_idx,            \* findings the for loop has taken so far
    processed_bugs,     \* the list of records built so far
    dispositions,       \* history: what the loop did with each finding taken
    range_rejected,     \* history: the finding lines get_method_code reported
                        \* as outside the method's range
    output_file,        \* what was written to <project>_bugs.json ("none": nothing)
    converted,          \* return value of convert_json_to_json: "none" while running
    \* ---- detect_java_version, one call ----------------------------------
    vpc,                \* position of the call: idle, call, returned
    gradle_file,        \* <project>/build.gradle
    pom_file,           \* <project>/pom.xml
    detected,           \* what the call gave its caller, with the pattern that matched
    \* ---- run_infer in two threads of one process ------------------------
    tpc,                \* position of each thread in run_infer
    process_cwd,        \* the process's working directory: 0 (where it was
                        \* started) or the project directory entered last
    out_dir,            \* per project: <project>/infer-out exists
    report_in,          \* per project: <project>/infer-out/report.json exists
    tattempt,           \* each thread's loop variable `attempt`
    tresult,            \* each thread's return value: "none" while running
    accessed            \* history: the output directories each thread's
                        \* cleanup, capture check and report check acted on

inferVars == <<pc, project_files, infer_out_exists, report_exists, attempt, cmd,
               build_rc, result, rmtree_calls, build_calls, report_calls,
               cleared_at, cleanup_left_stale, steps>>
discVars  == <<dpc, cwd, directory, descriptors, walk_todo, root, current_dir,
               processed_paths, java_projects>>
batchVars == <<spc, batch_projects, version, installed, max_workers,
               projects_by_java_version, gidx, sub_idx, future, outcome,
               all_results, environ, env_writes, exec_count, summary,
               summary_writes, faulted, build_home>>
workerVars == <<wpc, wfiles, wexits, wfault, wresult>>
extractVars == <<epc, source_lines, report_len, bug_idx, processed_bugs,
                 dispositions, range_rejected, output_file, converted>>
detectVars == <<vpc, gradle_file, pom_file, detected>>
pairVars == <<tpc, process_cwd, out_dir, report_in, tattempt, tresult, accessed>>
vars == <<inferVars, discVars, batchVars, workerVars, extractVars, detectVars,
          pairVars>>
\* what each component leaves alone
inferOther == <<discVars, batchVars, workerVars, extractVars, detectVars, pairVars>>
discOther  == <<inferVars, batchVars, workerVars, extractVars, detectVars, pairVars>>
batchOther == <<inferVars, discVars, workerVars, extractVars, detectVars, pairVars>>
workerOther == <<inferVars, discVars, batchVars, extractVars, detectVars, pairVars>>
extractOther == <<inferVars, discVars, batchVars, workerVars, detectVars, pairVars>>
detectOther == <<inferVars, discVars, batchVars, workerVars, extractVars, pairVars>>
pairOther == <<inferVars, discVars, batchVars, workerVars, extractVars, detectVars>>

(***************************************************************************)
(*                              run_infer                                  *)
(***************************************************************************)

\* range(3) of the cleanup loop and of the report loop
CLEANUP_ATTEMPTS == 3
REPORT_ATTEMPTS == 3
\* `if attempt == 2` in both except clauses: the attempt treated as the last
LAST_ATTEMPT == 2

InferIdle ==
    /\ pc = "idle"
    /\ project_files = [project |-> FALSE, gradlew |-> FALSE, tenv |-> FALSE,
                        pom |-> FALSE, gradle |-> FALSE]
    /\ infer_out_exists = FALSE
    /\ report_exists = FALSE
    /\ attempt = 0
    /\ cmd = "none"
    /\ build_rc = -1
    /\ result = "none"
    /\ rmtree_calls = 0
    /\ build_calls = 0
    /\ report_calls = 0
    /\ cleared_at = 0
    /\ cleanup_left_stale = FALSE
    /\ steps = <<>>

\* The state when run_infer is entered: any project directory content, with
\* possibly a stale infer-out (and report.json inside it) from an earlier run.
InferInit ==
    /\ pc = "start"
    /\ project_files \in [project : BOOLEAN, gradlew : BOOLEAN, tenv : BOOLEAN,
                          pom : BOOLEAN, gradle : BOOLEAN]
    /\ (~project_files.project) =>
           project_files = [project |-> FALSE, gradlew |-> FALSE, tenv |-> FALSE,
                            pom |-> FALSE, gradle |-> FALSE]
    /\ infer_out_exists \in BOOLEAN
    /\ report_exists \in BOOLEAN
    /\ report_exists => infer_out_exists
    /\ infer_out_exists => project_files.project
    /\ attempt = 0
    /\ cmd = "none"
    /\ build_rc = -1
    /\ result = "none"
    /\ rmtree_calls = 0
    /\ build_calls = 0
    /\ report_calls = 0
    /\ cleared_at = 0
    /\ cleanup_left_stale = FALSE
    /\ steps = <<>>

\* return <value> from run_infer (also the two outer except clauses, which
\* return False)
Return(value) ==
    /\ pc' = "done"
    /\ result' = value

\* lines 150-154: the project path must exist; os.chdir may raise
EnterProject ==
    /\ pc = "start"
    /\ \/ /\ ~project_files.project
          /\ Return("False")
       \/ /\ project_files.project
          /\ \E chdir_ok \in BOOLEAN :
                IF chdir_ok THEN pc' = "permissions" /\ result' = result
                            ELSE Return("False")
    /\ UNCHANGED <<project_files, infer_out_exists, report_exists, attempt, cmd,
                   build_rc, rmtree_calls, build_calls, report_calls,
                   cleared_at, cleanup_left_stale>>
    /\ UNCHANGED steps
    /\ UNCHANGED inferOther

\* lines 157-161 with the cleanup loop left out
AfterPermissionsSkipCleanup == "tenv"
\* lines 157-161: after a passed permission check the cleanup loop is entered
AfterPermissions == "cleanup"

\* check_permissions (lines 38-47) and its use (lines 157-158)
CheckPermissions ==
    /\ pc = "permissions"
    /\ \E chmod_ok \in BOOLEAN :
          IF project_files.gradlew /\ ~chmod_ok
          THEN Return("False") /\ attempt' = attempt
          ELSE pc' = AfterPermissions /\ result' = result /\ attempt' = 0
    /\ UNCHANGED <<project_files, infer_out_exists, report_exists, cmd,
                   build_rc, rmtree_calls, build_calls, report_calls,
                   cleared_at, cleanup_left_stale>>
    /\ steps' = IF pc' = "done" THEN steps ELSE Append(steps, "permissions")
    /\ UNCHANGED inferOther

\* line 163: a deletion is attempted only while infer-out exists
ShouldDeleteAlways(exists) == TRUE
ShouldDelete(exists) == exists

\* lines 162-190, one iteration of `for attempt in range(3)`.
\* shutil.rmtree(infer_out, ignore_errors=True) leaves the directory absent
\* or present (`after`), and the try block either completes or raises.
CleanupAttempt ==
    /\ pc = "cleanup"
    /\ attempt < CLEANUP_ATTEMPTS
    /\ IF ~ShouldDelete(infer_out_exists)
       THEN /\ attempt' = attempt + 1
            /\ UNCHANGED <<pc, result, infer_out_exists, report_exists,
                           rmtree_calls, cleared_at, cleanup_left_stale>>
       ELSE \E after \in BOOLEAN, raised \in BOOLEAN, report_after \in BOOLEAN :
            /\ after => infer_out_exists
            /\ report_after => (after /\ report_exists)
            /\ infer_out_exists' = after
            /\ report_exists' = report_after
            /\ rmtree_calls' = rmtree_calls + 1
            /\ cleared_at' = IF ~after /\ cleared_at = 0
                              THEN rmtree_calls + 1 ELSE cleared_at
            /\ cleanup_left_stale' =
                  (cleanup_left_stale \/ (after /\ rmtree_calls + 1 = CLEANUP_ATTEMPTS))
            /\ IF raised
               THEN \* lines 185-190
                    IF attempt = LAST_ATTEMPT
                    THEN Return("False") /\ attempt' = attempt
                    ELSE pc' = pc /\ result' = result /\ attempt' = attempt + 1
               ELSE \* lines 172-184
                    IF ~after
                    THEN pc' = "tenv" /\ result' = result /\ attempt' = attempt
                    ELSE pc' = pc /\ result' = result /\ attempt' = attempt + 1
    /\ UNCHANGED <<project_files, cmd, build_rc, build_calls, report_calls>>
    /\ steps' = IF pc' = "tenv" THEN Append(steps, "cleanup") ELSE steps
    /\ UNCHANGED inferOther

\* the for loop is exhausted: control falls through to line 192
CleanupExhausted ==
    /\ pc = "cleanup"
    /\ attempt >= CLEANUP_ATTEMPTS
    /\ pc' = "tenv"
    /\ UNCHANGED <<project_files, infer_out_exists, report_exists, attempt, cmd,
                   build_rc, result, rmtree_calls, build_calls, report_calls,
                   cleared_at, cleanup_left_stale>>
    /\ steps' = Append(steps, "cleanup")
    /\ UNCHANGED inferOther

\* lines 192-199: .global.tenv is removed; a failure is only logged
CleanTenv ==
    /\ pc = "tenv"
    /\ \E unlink_ok \in BOOLEAN :
          project_files' = [project_files EXCEPT
                               !.tenv = project_files.tenv /\ ~unlink_ok]
    /\ pc' = "select"
    /\ UNCHANGED <<infer_out_exists, report_exists, attempt, cmd, build_rc,
                   result, rmtree_calls, build_calls, report_calls, cleared_at,
                   cleanup_left_stale>>
    /\ UNCHANGED steps
    /\ UNCHANGED inferOther

\* lines 202-212: the command template, by the descriptor present
SelectCommand(files) ==
    IF files.pom THEN "maven"
    ELSE IF files.gradle THEN "gradle"
    ELSE "unsupported"

SelectBuild ==
    /\ pc = "select"
    /\ cmd' = SelectCommand(project_files)
    /\ IF cmd' = "unsupported"
       THEN Return("False")
       ELSE pc' = "build" /\ result' = result
    /\ UNCHANGED <<project_files, infer_out_exists, report_exists, attempt,
                   build_rc, rmtree_calls, build_calls, report_calls, cleared_at,
                   cleanup_left_stale>>
    /\ UNCHANGED steps
    /\ UNCHANGED inferOther

\* lines 222-225: where control goes after the wrapped build has exited with
\* rc: a non-zero exit only prints a warning
AfterBuildStrict(rc) == IF rc # 0 THEN "done" ELSE "capture"
AfterBuild(rc) == "capture"

\* lines 214-225: the wrapped build runs; a non-zero exit is only a warning.
\* The analyzer leaves infer-out and report.json present or absent; a build
\* that cannot be launched raises into the outer except clause.
BuildDispatch ==
    /\ pc = "build"
    /\ build_calls' = build_calls + 1
    /\ \/ /\ Return("False")
          /\ UNCHANGED <<infer_out_exists, report_exists, build_rc>>
       \/ \E rc \in {0, 1}, out \in BOOLEAN, rep \in BOOLEAN :
          /\ rep => out
          /\ build_rc' = rc
          /\ infer_out_exists' = out
          /\ report_exists' = rep
          /\ pc' = AfterBuild(rc)
          /\ result' = IF AfterBuild(rc) = "done" THEN "False" ELSE result
    /\ UNCHANGED <<project_files, attempt, cmd, rmtree_calls, report_calls,
                   cleared_at, cleanup_left_stale>>
    /\ steps' = Append(steps, "build")
    /\ UNCHANGED inferOther

\* line 228: `if not infer_out.exists()`
CaptureFailedNever(exists) == FALSE
CaptureFailed(exists) == ~exists

\* lines 227-230
CaptureCheck ==
    /\ pc = "capture"
    /\ IF CaptureFailed(infer_out_exists)
       THEN Return("False")
       ELSE pc' = "state_file" /\ result' = result
    /\ UNCHANGED <<project_files, infer_out_exists, report_exists, attempt, cmd,
                   build_rc, rmtree_calls, build_calls, report_calls, cleared_at,
                   cleanup_left_stale>>
    /\ steps' = IF pc' = "state_file" THEN Append(steps, "capture") ELSE steps
    /\ UNCHANGED inferOther

\* lines 232-241: the run-state file is written if absent; a failure is only
\* logged
StateFile ==
    /\ pc = "state_file"
    /\ pc' = "report"
    /\ attempt' = 0
    /\ UNCHANGED <<project_files, infer_out_exists, report_exists, cmd, build_rc,
                   result, rmtree_calls, build_calls, report_calls, cleared_at,
                   cleanup_left_stale>>
    /\ UNCHANGED steps
    /\ UNCHANGED inferOther

\* line 245: "infer report" is invoked only while report.json is missing
ReportMissingAlways(exists) == TRUE
ReportMissing(exists) == ~exists

\* lines 244-256, one iteration of `for attempt in range(3)`.
\* "infer report" exits 0 ("ok"), exits non-zero ("error": CalledProcessError
\* under check=True) or cannot be launched ("oserror": caught at line 266);
\* it leaves report.json present or absent (`produced`).
ReportAttempt ==
    /\ pc = "report"
    /\ attempt < REPORT_ATTEMPTS
    /\ IF ~ReportMissing(report_exists)
       THEN /\ attempt' = attempt + 1
            /\ UNCHANGED <<pc, result, report_exists, report_calls>>
       ELSE \E exit \in {"ok", "error", "oserror"}, produced \in BOOLEAN :
            /\ report_calls' = report_calls + 1
            /\ report_exists' = produced
            /\ CASE exit = "ok" ->
                      IF produced
                      THEN Return("True") /\ attempt' = attempt
                      ELSE pc' = pc /\ result' = result /\ attempt' = attempt + 1
                 [] exit = "error" ->
                      IF attempt = LAST_ATTEMPT
                      THEN Return("False") /\ attempt' = attempt
                      ELSE pc' = pc /\ result' = result /\ attempt' = attempt + 1
                 [] exit = "oserror" ->
                      Return("False") /\ attempt' = attempt
    /\ UNCHANGED <<project_files, infer_out_exists, cmd, build_rc, rmtree_calls,
                   build_calls, cleared_at, cleanup_left_stale>>
    /\ steps' = IF report_calls' > report_calls THEN Append(steps, "report") ELSE steps
    /\ UNCHANGED inferOther

\* the for loop is exhausted: lines 258-259 return True
ReportExhausted ==
    /\ pc = "report"
    /\ attempt >= REPORT_ATTEMPTS
    /\ Return("True")
    /\ UNCHANGED <<project_files, infer_out_exists, report_exists, attempt, cmd,
                   build_rc, rmtree_calls, build_calls, report_calls, cleared_at,
                   cleanup_left_stale>>
    /\ UNCHANGED steps
    /\ UNCHANGED inferOther

InferNext ==
    \/ EnterProject
    \/ CheckPermissions
    \/ CleanupAttempt
    \/ CleanupExhausted
    \/ CleanTenv
    \/ SelectBuild
    \/ BuildDispatch
    \/ CaptureCheck
    \/ StateFile
    \/ ReportAttempt
    \/ ReportExhausted

(***************************************************************************)
(*                          find_java_projects                             *)
(***************************************************************************)
\* A directory name is a sequence of letter groups; a path string is
\* [abs, comps]: whether it starts with "/" and its "/"-separated names.
\* "" is [abs |-> FALSE, comps |-> <<>>] and "/" is [abs |-> TRUE, comps |-> <<>>].
\* An absolute, normalised path is written as its sequence of names.

NameA == <<"a">>
NameAB == <<"a", "b">>
NameM == <<"m">>
NameP == <<"p">>
NameR == <<"r">>
NameW == <<"w">>
NameDroid == <<"my", "Android">>
NameDroidHome == <<"Android", "w">>
\* the name "." of a directory in itself
NameDot == <<".">>

\* The directories of the tree under the scanned root, relative to it.
TreeDirs == { <<>>, <<NameA>>, <<NameAB>>, <<NameA, NameM>>, <<NameDroid>>,
              <<NameDroid, NameP>> }
\* The working directories the process may be started in.
WorkDirs == { <<NameW>>, <<NameDroidHome>> }

Children(rel) == { d \in TreeDirs : Len(d) = Len(rel) + 1
                                  /\ SubSeq(d, 1, Len(rel)) = rel }

\* every ordering of a finite set as a sequence (os.scandir's order is arbitrary)
Orderings(S) == { q \in [1..Cardinality(S) -> S] :
                    \A i, j \in 1..Cardinality(S) : i # j => q[i] # q[j] }

\* str.lower() on a letter group
Lower(tok) == IF tok = "Android" THEN "android" ELSE tok

\* os.path.join(path, rel) for a relative rel
Join(path, rel) == [abs |-> path.abs, comps |-> path.comps \o rel]

\* os.path.dirname
Dirname(path) ==
    IF path.comps = <<>> THEN path
    ELSE [path EXCEPT !.comps = SubSeq(path.comps, 1, Len(path.comps) - 1)]

\* os.path.normpath on the names of a path: "." names are dropped
Normpath(comps) == SelectSeq(comps, LAMBDA c : c # NameDot)

\* os.path.abspath: relative paths are resolved against the working directory
\* and the result is normalised
Abspath(path, wd) == Normpath(IF path.abs THEN path.comps ELSE wd \o path.comps)

\* the absolute path as the string abspath returns (a normalised absolute path)
AbsString(abs_path) == [abs |-> TRUE, comps |-> abs_path]

\* the characters of an absolute path string: "/" before each name
RECURSIVE Chars(_)
Chars(abs_path) ==
    IF abs_path = <<>> THEN <<>>
    ELSE <<"/">> \o Head(abs_path) \o Chars(Tail(abs_path))

PathChars(abs_path) == IF abs_path = <<>> THEN <<"/">> ELSE Chars(abs_path)

\* str.startswith
StartsWith(s, prefix) ==
    /\ Len(prefix) <= Len(s)
    /\ SubSeq(s, 1, Len(prefix)) = prefix

\* line 43: "android" in root.lower()
IsAndroidPath(path) ==
    \E i \in 1..Len(path.comps) :
        \E k \in 1..Len(path.comps[i]) : Lower(path.comps[i][k]) = "android"

\* line 47, 58-59: the directory holds build.gradle or pom.xml (the operating
\* system resolves a relative path against the working directory)
HasDescriptor(path, wd, descs) == Abspath(path, wd) \in descs

\* line 51: any(abs_path.startswith(p) for p in processed_paths)
IsUnderProcessedNever(abs_path, processed) == FALSE
IsUnderProcessed(abs_path, processed) ==
    \E q \in processed : StartsWith(PathChars(abs_path), PathChars(q))

\* line 56-59: the climbing loop goes on to the parent
ClimbsToParent(cur, base, wd, descs) ==
    /\ cur # base
    /\ HasDescriptor(Dirname(cur), wd, descs)

DiscIdle ==
    /\ dpc = "idle"
    /\ cwd = <<>>
    /\ directory = [abs |-> TRUE, comps |-> <<>>]
    /\ descriptors = {}
    /\ walk_todo = <<>>
    /\ root = [abs |-> TRUE, comps |-> <<>>]
    /\ current_dir = [abs |-> TRUE, comps |-> <<>>]
    /\ processed_paths = {}
    /\ java_projects = <<>>

\* The forms of the root argument: the absolute path of <cwd>/r, "r", the
\* non-normalised "./r", and "p/r" (a root two levels below the working
\* directory).
RootForms(wd) == { [abs |-> TRUE, comps |-> wd \o <<NameR>>],
                   [abs |-> FALSE, comps |-> <<NameR>>],
                   [abs |-> FALSE, comps |-> <<NameDot, NameR>>],
                   [abs |-> FALSE, comps |-> <<NameP, NameR>>] }

\* The directories that may hold a build descriptor: the working directory,
\* the directories between it and the root, and every directory of the
\* scanned tree.
DescriptorSites(wd, dir) ==
    LET r == Abspath(dir, wd)
    IN { SubSeq(r, 1, n) : n \in Len(wd)..(Len(r) - 1) }
         \cup { r \o d : d \in TreeDirs }

\* lines 33-41: the state when the walk starts
DiscInit ==
    /\ dpc = "walk"
    /\ cwd \in WorkDirs
    /\ directory \in RootForms(cwd)
    /\ descriptors \in SUBSET DescriptorSites(cwd, directory)
    /\ walk_todo = << <<>> >>
    /\ root = directory
    /\ current_dir = directory
    /\ processed_paths = {}
    /\ java_projects = <<>>

base_dir == AbsString(Abspath(directory, cwd))

\* lines 41-55: os.walk yields the next directory, top-down; the loop body
\* runs up to the start of the climbing loop
WalkYield ==
    /\ dpc = "walk"
    /\ walk_todo # <<>>
    /\ LET rel == Head(walk_todo)
           here == Join(directory, rel)
       IN /\ \E order \in Orderings(Children(rel)) :
                 walk_todo' = order \o Tail(walk_todo)
          /\ root' = here
          /\ IF \/ IsAndroidPath(here)
                \/ ~HasDescriptor(here, cwd, descriptors)
                \/ IsUnderProcessed(Abspath(here, cwd), processed_paths)
             THEN UNCHANGED <<dpc, current_dir>>
             ELSE dpc' = "climb" /\ current_dir' = here
    /\ UNCHANGED <<cwd, directory, descriptors, processed_paths, java_projects>>
    /\ UNCHANGED discOther

\* lines 56-60: one iteration of the climbing loop that moves up
ClimbStep ==
    /\ dpc = "climb"
    /\ ClimbsToParent(current_dir, base_dir, cwd, descriptors)
    /\ current_dir' = Dirname(current_dir)
    /\ UNCHANGED <<dpc, cwd, directory, descriptors, walk_todo, root,
                   processed_paths, java_projects>>
    /\ UNCHANGED discOther

\* lines 61-68: the climbing loop ends and the project is registered
Register ==
    /\ dpc = "climb"
    /\ ~ClimbsToParent(current_dir, base_dir, cwd, descriptors)
    /\ LET abs_path == Abspath(current_dir, cwd)
       IN IF abs_path \notin processed_paths
          THEN /\ java_projects' = Append(java_projects, abs_path)
               /\ processed_paths' = processed_paths \cup {abs_path}
          ELSE UNCHANGED <<java_projects, processed_paths>>
    /\ dpc' = "walk"
    /\ UNCHANGED <<cwd, directory, descriptors, walk_todo, root, current_dir>>
    /\ UNCHANGED discOther

\* line 72: the walk is exhausted and the list is returned
WalkDone ==
    /\ dpc = "walk"
    /\ walk_todo = <<>>
    /\ dpc' = "done"
    /\ UNCHANGED <<cwd, directory, descriptors, walk_todo, root, current_dir,
                   processed_paths, java_projects>>
    /\ UNCHANGED discOther

DiscNext ==
    \/ WalkYield
    \/ ClimbStep
    \/ Register
    \/ WalkDone

(***************************************************************************)
(*                              run_analysis                               *)
(***************************************************************************)

\* the most projects one discovery hands to run_analysis in this model
MaxProjects == 3
\* the largest pool size tried (BatchInferAnalyzer(max_workers=2) in main)
MaxPoolSize == 2

Versions == {"11", "17"}

NoGroup == [java_version |-> "none", projects |-> <<>>]

\* summary before save_summary has run. The three storage fields record what
\* the file system allowed when save_summary ran: creating infer-results,
\* writing the file in it, writing a file in the working directory.
NotSaved == [file |-> "none", results |-> <<>>, makedirs_ok |-> FALSE,
             write_ok |-> FALSE, fallback_ok |-> FALSE]

BatchIdle ==
    /\ spc = "idle"
    /\ batch_projects = <<>>
    /\ version = <<>>
    /\ installed = {}
    /\ max_workers = 0
    /\ projects_by_java_version = <<>>
    /\ gidx = 0
    /\ sub_idx = 0
    /\ future = <<>>
    /\ outcome = <<>>
    /\ all_results = <<>>
    /\ environ = [JAVA_HOME |-> "unset", PATH |-> <<>>]
    /\ env_writes = [v \in Versions |-> 0]
    /\ exec_count = <<>>
    /\ summary = NotSaved
    /\ summary_writes = 0
    /\ faulted = {}
    /\ build_home = <<>>

\* The state when run_analysis has its project list (line 319): distinct
\* project paths (line 65), each with the version detect_java_version reads
\* from its descriptor.
BatchInit ==
    /\ spc = "start"
    /\ \E n \in 0..MaxProjects :
          /\ batch_projects = [i \in 1..n |-> i]
          /\ version \in [1..n -> Versions]
          /\ future = [i \in 1..n |-> "none"]
          /\ outcome = [i \in 1..n |-> [project |-> i, status |-> "none",
                                        error |-> "none"]]
          /\ exec_count = [i \in 1..n |-> 0]
          /\ build_home = [i \in 1..n |-> "none"]
    /\ installed \in SUBSET Versions
    /\ max_workers \in 1..MaxPoolSize
    /\ projects_by_java_version = <<>>
    /\ gidx = 0
    /\ sub_idx = 0
    /\ all_results = <<>>
    /\ environ = [JAVA_HOME |-> "unset", PATH |-> <<>>]
    /\ env_writes = [v \in Versions |-> 0]
    /\ summary = NotSaved
    /\ summary_writes = 0
    /\ faulted = {}

\* lines 328-330: the project joins the group of its version, which is
\* created on first appearance
AddToGroupOverwriting(groups, v, p) ==
    IF \E i \in 1..Len(groups) : groups[i].java_version = v
    THEN [i \in 1..Len(groups) |->
            IF groups[i].java_version = v
            THEN [groups[i] EXCEPT !.projects = <<p>>]
            ELSE groups[i]]
    ELSE Append(groups, [java_version |-> v, projects |-> <<p>>])
AddToGroup(groups, v, p) ==
    IF \E i \in 1..Len(groups) : groups[i].java_version = v
    THEN [i \in 1..Len(groups) |->
            IF groups[i].java_version = v
            THEN [groups[i] EXCEPT !.projects = Append(groups[i].projects, p)]
            ELSE groups[i]]
    ELSE Append(groups, [java_version |-> v, projects |-> <<p>>])

\* lines 325-330: the grouping loop over java_projects
RECURSIVE GroupProjects(_, _, _)
GroupProjects(projects, ver, groups) ==
    IF projects = <<>> THEN groups
    ELSE GroupProjects(Tail(projects), ver,
                       AddToGroup(groups, ver[Head(projects)], Head(projects)))

CurrentGroup ==
    IF gidx \in 1..Len(projects_by_java_version)
    THEN projects_by_java_version[gidx] ELSE NoGroup

\* the elements of a sequence
Range(q) == { q[i] : i \in 1..Len(q) }

Running == { p \in DOMAIN future : future[p] = "running" }

\* the group a submitted project belongs to
GroupOf(p) ==
    CHOOSE i \in 1..Len(projects_by_java_version) :
        p \in Range(projects_by_java_version[i].projects)

\* the tasks the executor of p's group is running
RunningWith(p) ==
    { q \in Range(projects_by_java_version[GroupOf(p)].projects) :
        future[q] = "running" }

\* the tasks queued in the executor of p's group
QueuedWith(p) ==
    { q \in Range(projects_by_java_version[GroupOf(p)].projects) :
        future[q] = "pending" }

\* lines 319-330: no project ends the run; otherwise the projects are grouped
StartAnalysis ==
    /\ spc = "start"
    /\ IF batch_projects = <<>>
       THEN spc' = "done" /\ UNCHANGED projects_by_java_version
       ELSE /\ spc' = "next_group"
            /\ projects_by_java_version' = GroupProjects(batch_projects, version, <<>>)
    /\ UNCHANGED <<batch_projects, version, installed, max_workers, gidx, sub_idx,
                   future, outcome, all_results, environ, env_writes, exec_count,
                   summary, summary_writes>>
    /\ UNCHANGED <<faulted, build_home>>
    /\ UNCHANGED batchOther

\* lines 344-345: os.environ["JAVA_HOME"] and os.environ["PATH"] are set
SetEnviron(env, v) == [JAVA_HOME |-> v, PATH |-> <<v>> \o env.PATH]

\* lines 338-339: os.path.exists(java_home) for the group's version
JavaHomeExistsAlways(v, inst) == TRUE
JavaHomeExists(v, inst) == v \in inst

\* lines 334-347: the for loop takes the next group; a group whose runtime
\* installation is missing is skipped, otherwise the environment is set and
\* the executor is created
NextGroup ==
    /\ spc = "next_group"
    /\ gidx < Len(projects_by_java_version)
    /\ gidx' = gidx + 1
    /\ LET v == projects_by_java_version[gidx + 1].java_version
       IN IF ~JavaHomeExists(v, installed)
          THEN UNCHANGED <<spc, environ, env_writes>>
          ELSE /\ environ' = SetEnviron(environ, v)
               /\ env_writes' = [env_writes EXCEPT ![v] = @ + 1]
               /\ spc' = "submit"
    /\ sub_idx' = 0
    /\ UNCHANGED <<batch_projects, version, installed, max_workers,
                   projects_by_java_version, future, outcome, all_results,
                   exec_count, summary, summary_writes>>
    /\ UNCHANGED <<faulted, build_home>>
    /\ UNCHANGED batchOther

\* line 350: executor.submit(self.analyze_project, project), one project of
\* the group at a time
Submit ==
    /\ spc = "submit"
    /\ sub_idx < Len(CurrentGroup.projects)
    /\ LET p == CurrentGroup.projects[sub_idx + 1]
       IN future' = [future EXCEPT ![p] = "pending"]
    /\ sub_idx' = sub_idx + 1
    /\ spc' = IF sub_idx + 1 = Len(CurrentGroup.projects) THEN "collect" ELSE spc
    /\ UNCHANGED <<batch_projects, version, installed, max_workers,
                   projects_by_java_version, gidx, outcome, all_results, environ,
                   env_writes, exec_count, summary, summary_writes>>
    /\ UNCHANGED <<faulted, build_home>>
    /\ UNCHANGED batchOther

\* line 349: ThreadPoolExecutor(max_workers=self.max_workers) runs a queued
\* task only while fewer than max_workers tasks are running
PoolHasCapacityAlways(running, limit) == TRUE
PoolHasCapacity(running, limit) == Cardinality(running) < limit

\* lines 125-128: analyze_project copies os.environ and changes the copy;
\* this is os.environ after those lines
WorkerEnvironInPlace(env, v) == [JAVA_HOME |-> v, PATH |-> <<v>> \o env.PATH]
WorkerEnviron(env, v) == env

\* lines 121-127 with JAVA_HOME left as the oldest home on the inherited PATH
BuildJavaHomeStale(env, v) ==
    IF env.PATH = <<>> THEN v ELSE env.PATH[Len(env.PATH)]
\* lines 121-127: the env of the builds gets the home of the version
\* detect_java_version reads from the project, whatever os.environ holds
BuildJavaHome(env, v) == v

\* lines 115-128: a pool thread takes the oldest queued task and starts
\* analyze_project
WorkerStart(p) ==
    /\ future[p] = "pending"
    /\ \A q \in QueuedWith(p) : p <= q
    /\ PoolHasCapacity(RunningWith(p), max_workers)
    /\ future' = [future EXCEPT ![p] = "running"]
    /\ exec_count' = [exec_count EXCEPT ![p] = @ + 1]
    /\ environ' = WorkerEnviron(environ, version[p])
    /\ build_home' = [build_home EXCEPT ![p] = BuildJavaHome(environ, version[p])]
    /\ UNCHANGED <<spc, batch_projects, version, installed, max_workers,
                   projects_by_java_version, gidx, sub_idx, outcome, all_results,
                   env_writes, summary, summary_writes>>
    /\ UNCHANGED faulted
    /\ UNCHANGED batchOther

\* lines 130-204: the course of analyze_project, from what it finds in the
\* project directory, the exit codes of the builds it runs and the build (if
\* any) that cannot be launched: the status returned, the reason of an error
\* and the builds dispatched
AnalyzeSteps(has_gradlew, has_pom, gradle_rc, maven_rc, fault) ==
    IF has_gradlew /\ fault = "gradle"
    THEN [status |-> "error", reason |-> "exception", builds |-> <<"gradle">>]
    ELSE IF has_gradlew /\ gradle_rc # 0
    THEN [status |-> "error", reason |-> "gradle_failed", builds |-> <<"gradle">>]
    ELSE LET ran == IF has_gradlew THEN <<"gradle">> ELSE <<>>
         IN IF ~has_pom
            THEN [status |-> "error", reason |-> "no_build_file", builds |-> ran]
            ELSE IF fault = "maven"
            THEN [status |-> "error", reason |-> "exception",
                  builds |-> Append(ran, "maven")]
            ELSE IF maven_rc # 0
            THEN [status |-> "error", reason |-> "maven_failed",
                  builds |-> Append(ran, "maven")]
            ELSE [status |-> "success", reason |-> "none",
                  builds |-> Append(ran, "maven")]

\* lines 134 and 158: subprocess.run itself raises (the command cannot be
\* launched) in a build that analyze_project reaches
Raises(has_gradlew, has_pom, gradle_rc, fault) ==
    \/ has_gradlew /\ fault = "gradle"
    \/ /\ has_gradlew => gradle_rc = 0
       /\ has_pom
       /\ fault = "maven"

\* the dict analyze_project returns; the text of its "error" entry is kept
\* only as present ("message") or None ("none")
AnalyzeProjectUncaught(p, has_gradlew, has_pom, gradle_rc, maven_rc, fault) ==
    LET r == AnalyzeSteps(has_gradlew, has_pom, gradle_rc, maven_rc, fault)
    IN IF r.reason = "exception"
       THEN [project |-> p, status |-> "none", error |-> "none"]
       ELSE [project |-> p, status |-> r.status,
             error |-> IF r.status = "error" THEN "message" ELSE "none"]
AnalyzeProject(p, has_gradlew, has_pom, gradle_rc, maven_rc, fault) ==
    LET r == AnalyzeSteps(has_gradlew, has_pom, gradle_rc, maven_rc, fault)
    IN [project |-> p, status |-> r.status,
        error |-> IF r.status = "error" THEN "message" ELSE "none"]

\* lines 130-204: analyze_project runs its builds and returns
WorkerFinish(p) ==
    /\ future[p] = "running"
    /\ \E has_gradlew \in BOOLEAN, has_pom \in BOOLEAN, gradle_rc \in {0, 1},
          maven_rc \in {0, 1}, fault \in {"none", "gradle", "maven"} :
          /\ outcome' = [outcome EXCEPT ![p] =
                            AnalyzeProject(p, has_gradlew, has_pom, gradle_rc,
                                           maven_rc, fault)]
          /\ faulted' = IF Raises(has_gradlew, has_pom, gradle_rc, fault)
                       THEN faulted \cup {p} ELSE faulted
    /\ future' = [future EXCEPT ![p] = "finished"]
    /\ UNCHANGED <<spc, batch_projects, version, installed, max_workers,
                   projects_by_java_version, gidx, sub_idx, all_results, environ,
                   env_writes, exec_count, summary, summary_writes>>
    /\ UNCHANGED build_home
    /\ UNCHANGED batchOther

\* lines 351-356: as_completed yields a finished future and its result is
\* appended
Collect(p) ==
    /\ spc = "collect"
    /\ future[p] = "finished"
    /\ all_results' = Append(all_results, outcome[p])
    /\ future' = [future EXCEPT ![p] = "collected"]
    /\ UNCHANGED <<spc, batch_projects, version, installed, max_workers,
                   projects_by_java_version, gidx, sub_idx, outcome, environ,
                   env_writes, exec_count, summary, summary_writes>>
    /\ UNCHANGED <<faulted, build_home>>
    /\ UNCHANGED batchOther

\* lines 349-351: as_completed is exhausted and the with block has shut the
\* executor down (wait=True): every future of the group is done
GroupJoinedOnFirst(fut, projects) ==
    \E i \in 1..Len(projects) : fut[projects[i]] = "collected"
GroupJoined(fut, projects) ==
    \A i \in 1..Len(projects) : fut[projects[i]] = "collected"

\* the with block is left and the for loop goes on
GroupDone ==
    /\ spc = "collect"
    /\ GroupJoined(future, CurrentGroup.projects)
    /\ spc' = "next_group"
    /\ UNCHANGED <<batch_projects, version, installed, max_workers,
                   projects_by_java_version, gidx, sub_idx, future, outcome,
                   all_results, environ, env_writes, exec_count, summary,
                   summary_writes>>
    /\ UNCHANGED <<faulted, build_home>>
    /\ UNCHANGED batchOther

\* lines 245-273: where save_summary writes. When os.makedirs fails, the
\* fallback's file name uses `timestamp`, which is not yet bound.
SaveSummaryFile(makedirs_ok, write_ok, fallback_ok) ==
    IF makedirs_ok /\ write_ok THEN "infer-results"
    ELSE IF ~makedirs_ok THEN "none"
    ELSE IF fallback_ok THEN "cwd"
    ELSE "none"

\* line 334 with the loop left after its first group
GroupsExhaustedAfterFirst(idx, groups) == idx >= 1 \/ idx = Len(groups)

\* line 334: the for loop over the groups has no group left
GroupsExhausted(idx, groups) == idx = Len(groups)

\* lines 365-367: the for loop is exhausted and the summary is saved
SaveSummary ==
    /\ spc = "next_group"
    /\ GroupsExhausted(gidx, projects_by_java_version)
    /\ \E makedirs_ok \in BOOLEAN, write_ok \in BOOLEAN, fallback_ok \in BOOLEAN :
          LET file == SaveSummaryFile(makedirs_ok, write_ok, fallback_ok)
          IN summary' = [file |-> file,
                         results |-> IF file = "none" THEN <<>> ELSE all_results,
                         makedirs_ok |-> makedirs_ok,
                         write_ok |-> write_ok,
                         fallback_ok |-> fallback_ok]
    /\ summary_writes' = summary_writes + 1
    /\ spc' = "done"
    /\ UNCHANGED <<batch_projects, version, installed, max_workers,
                   projects_by_java_version, gidx, sub_idx, future, outcome,
                   all_results, environ, env_writes, exec_count>>
    /\ UNCHANGED <<faulted, build_home>>
    /\ UNCHANGED batchOther

BatchNext ==
    \/ StartAnalysis
    \/ NextGroup
    \/ Submit
    \/ \E p \in DOMAIN future : WorkerStart(p)
    \/ \E p \in DOMAIN future : WorkerFinish(p)
    \/ \E p \in DOMAIN future : Collect(p)
    \/ GroupDone
    \/ SaveSummary

(***************************************************************************)
(*                        analyze_project, one call                        *)
(***************************************************************************)

NoResult == [status |-> "none", reason |-> "none", builds |-> <<>>]

WorkerIdle ==
    /\ wpc = "idle"
    /\ wfiles = [gradlew |-> FALSE, pom |-> FALSE, build_gradle |-> FALSE]
    /\ wexits = [gradle |-> 0, maven |-> 0]
    /\ wfault = "none"
    /\ wresult = NoResult

\* The state when analyze_project is called: any content of the project
\* directory, any exit code of each build, and possibly one build that cannot
\* be launched.
WorkerInit ==
    /\ wpc = "call"
    /\ wfiles \in [gradlew : BOOLEAN, pom : BOOLEAN, build_gradle : BOOLEAN]
    /\ wexits \in [gradle : {0, 1}, maven : {0, 1}]
    /\ wfault \in {"none", "gradle", "maven"}
    /\ wresult = NoResult

\* lines 115-204: the call runs to its return
AnalyzeCall ==
    /\ wpc = "call"
    /\ wresult' = AnalyzeSteps(wfiles.gradlew, wfiles.pom, wexits.gradle,
                               wexits.maven, wfault)
    /\ wpc' = "returned"
    /\ UNCHANGED <<wfiles, wexits, wfault>>
    /\ UNCHANGED workerOther

WorkerNext == AnalyzeCall

(***************************************************************************)
(*           convert_json_to_json (src/generate_bug_report.py)             *)
(***************************************************************************)

\* Bounds: lines of the source file, findings of the report.
MaxLines == 3
MaxFindings == 2

\* A source line, by what get_method_code reads of it: whether it contains
\* the method name, whether it contains "(", and its "{" and "}" counts.
Plain   == [name |-> FALSE, paren |-> FALSE, opens |-> 0, closes |-> 0]
Decl    == [name |-> TRUE,  paren |-> TRUE,  opens |-> 1, closes |-> 0]
Call    == [name |-> TRUE,  paren |-> TRUE,  opens |-> 0, closes |-> 0]
Mention == [name |-> TRUE,  paren |-> FALSE, opens |-> 0, closes |-> 0]
Open    == [name |-> FALSE, paren |-> TRUE,  opens |-> 1, closes |-> 0]
Close   == [name |-> FALSE, paren |-> FALSE, opens |-> 0, closes |-> 1]
LineKinds == {Plain, Decl, Call, Mention, Open, Close}

\* the source files of at most MaxLines lines
Files == UNION { [1..n -> LineKinds] : n \in 0..MaxLines }

\* the source file of the projects whose report holds several findings: a
\* method declared on line 2 and closed on the last line
SampleSources == { [i \in 1..MaxLines |->
                       IF i = 2 THEN Decl
                       ELSE IF i = MaxLines THEN Close ELSE Plain] }

\* The `file` values of the findings, as sequences of letter groups.
PathMain      == <<"src/", "A", ".java">>
PathMissing   == <<"src/", "B", ".java">>
PathTestDir   == <<"src/", "test", "/", "A", ".java">>
PathTestClass == <<"src/", "Test", "A", ".java">>
FilePaths == {PathMain, PathMissing, PathTestDir, PathTestClass}

\* the `line` values of the findings, and the line numbers of trace entries
\* (the first two lines and a line beyond the end of the file)
BugLines == 0..(MaxLines + 1)
TraceLines == {1, 2, MaxLines + 1}
\* the bug_trace values: no entry, one entry or two
Traces == {<<>>} \cup { <<a>> : a \in TraceLines }
                 \cup { <<a, b>> : a \in TraceLines, b \in TraceLines }

\* str.lower() of a letter group
LowerGroup(tok) == IF tok = "Test" THEN "test" ELSE tok

\* line 157: 'test' in file_path.lower()
IsTestFileCaseSensitive(file_path) ==
    \E i \in 1..Len(file_path) : file_path[i] = "test"
IsTestFile(file_path) ==
    \E i \in 1..Len(file_path) : LowerGroup(file_path[i]) = "test"

\* lines 69-73: the 0-based index of the first line that contains the method
\* name and "(", or -1
StartLine(lines) ==
    LET hits == { i \in 0..(Len(lines) - 1) : lines[i + 1].name /\ lines[i + 1].paren }
    IN IF hits = {} THEN -1
       ELSE CHOOSE i \in hits : \A j \in hits : i <= j

\* line 88: brace_count after the lines start..i (0-based) have been read
RECURSIVE BraceCount(_, _, _)
BraceCount(lines, start, i) ==
    IF i < start THEN 0
    ELSE BraceCount(lines, start, i - 1) + lines[i + 1].opens - lines[i + 1].closes

\* lines 89-91: the 0-based indices after start at which the loop would break
BreakLines(lines, start) ==
    { i \in (start + 1)..(Len(lines) - 1) : BraceCount(lines, start, i) = 0 }

\* lines 81-91: end_line stays start_line unless the loop breaks
EndLine(lines, start) ==
    IF BreakLines(lines, start) = {} THEN start
    ELSE CHOOSE i \in BreakLines(lines, start) :
             \A j \in BreakLines(lines, start) : i <= j

\* lines 83-91: the lines appended to method_code, up to the break or the
\* end of the file
MethodCode(lines, start) ==
    IF BreakLines(lines, start) = {} THEN SubSeq(lines, start + 1, Len(lines))
    ELSE SubSeq(lines, start + 1, EndLine(lines, start) + 1)

\* a str returned by get_method_code
NotFound(message) == [found |-> FALSE, message |-> message]

\* line 94: the test that rejects the finding's line
OutsideMethod(bug_line, start, end) == bug_line < start \/ bug_line > end

\* lines 57-105: get_method_code
GetMethodCode(exists, lines, bug_line) ==
    IF ~exists THEN NotFound("File not found")
    ELSE LET start == StartLine(lines)
         IN IF start = -1 THEN NotFound("Method not found")
            ELSE IF OutsideMethod(bug_line, start, EndLine(lines, start))
            THEN NotFound("outside method range")
            ELSE [found |-> TRUE,
                  code |-> MethodCode(lines, start),
                  start_line |-> start + 1,
                  end_line |-> EndLine(lines, start) + 1,
                  bug_line |-> bug_line]

\* line 187: the trace lines the generator keeps
TraceLinesUpTo(trace, method_end) ==
    { trace[i] : i \in { k \in 1..Len(trace) : trace[k] <= method_end } }

Max(S) == CHOOSE x \in S : \A y \in S : y <= x

\* line 187: max() of an empty generator raises ValueError
BugEndRaises(trace, method_end) ==
    trace # <<>> /\ TraceLinesUpTo(trace, method_end) = {}

\* lines 185-189: bug_end
BugEndUnfiltered(trace, bug_start, method_end) ==
    IF trace # <<>> THEN Max(Range(trace)) ELSE bug_start
BugEnd(trace, bug_start, method_end) ==
    IF trace # <<>> THEN Max(TraceLinesUpTo(trace, method_end)) ELSE bug_start

\* line 193: the index in bug_id, from the records built so far; bug_idx is
\* the number of findings the loop has taken before this one
NextBugIdByPosition(bugs, idx) == idx + 1
NextBugId(bugs, idx) == Len(bugs) + 1

\* lines 178-206: the record built for a located finding
ProcessedBug(n, file_path, bug_line, trace, method_info) ==
    [bug_id |-> n,
     file |-> file_path,
     line_number |-> bug_line,
     method_start_line |-> method_info.start_line,
     method_end_line |-> method_info.end_line,
     bug_start_line |-> bug_line,
     bug_end_line |-> BugEnd(trace, bug_line, method_info.end_line),
     method_code |-> method_info.code,
     bug_trace |-> trace]

NothingWritten == [written |-> FALSE, bugs |-> <<>>]

ExtractIdle ==
    /\ epc = "idle"
    /\ source_lines = <<>>
    /\ report_len = 0
    /\ bug_idx = 0
    /\ processed_bugs = <<>>
    /\ dispositions = <<>>
    /\ range_rejected = {}
    /\ output_file = NothingWritten
    /\ converted = "none"

\* The state when convert_json_to_json is called: a report of at most
\* MaxFindings findings on a project with one source file. A report of one
\* finding comes with any source file, a longer report with a sample file.
ExtractInit ==
    /\ epc = "start"
    /\ report_len \in 0..MaxFindings
    /\ source_lines \in IF report_len <= 1 THEN Files ELSE SampleSources
    /\ bug_idx = 0
    /\ processed_bugs = <<>>
    /\ dispositions = <<>>
    /\ range_rejected = {}
    /\ output_file = NothingWritten
    /\ converted = "none"

\* lines 111-150: the report is found and parsed and the output directory is
\* made, or the function returns False
ReadReport ==
    /\ epc = "start"
    /\ \E loaded \in BOOLEAN :
          IF loaded THEN epc' = "loop" /\ converted' = converted
                    ELSE epc' = "done" /\ converted' = "False"
    /\ UNCHANGED <<source_lines, report_len, bug_idx, processed_bugs,
                   dispositions, range_rejected, output_file>>
    /\ UNCHANGED extractOther

\* lines 154-207, one iteration of `for bug in bug_reports`. The ValueError
\* of line 187 is caught at line 222: the function returns False and nothing
\* is written.
ProcessBug ==
    /\ epc = "loop"
    /\ bug_idx < report_len
    /\ \E file_path \in FilePaths, bug_line \in BugLines, trace \in Traces :
          LET method_info == GetMethodCode(file_path # PathMissing, source_lines,
                                           bug_line)
          IN IF IsTestFile(file_path)
             THEN /\ dispositions' = Append(dispositions, "test")
                  /\ UNCHANGED <<epc, processed_bugs, converted, range_rejected>>
             ELSE IF ~method_info.found
             THEN /\ dispositions' = Append(dispositions, "unlocated")
                  /\ range_rejected' =
                        IF method_info = NotFound("outside method range")
                        THEN range_rejected \cup {bug_line} ELSE range_rejected
                  /\ UNCHANGED <<epc, processed_bugs, converted>>
             ELSE IF BugEndRaises(trace, method_info.end_line)
             THEN /\ dispositions' = Append(dispositions, "raised")
                  /\ epc' = "done"
                  /\ converted' = "False"
                  /\ UNCHANGED <<processed_bugs, range_rejected>>
             ELSE /\ dispositions' = Append(dispositions, "emitted")
                  /\ UNCHANGED range_rejected
                  /\ processed_bugs' =
                        Append(processed_bugs,
                               ProcessedBug(NextBugId(processed_bugs, bug_idx),
                                            file_path, bug_line, trace,
                                            method_info))
                  /\ UNCHANGED <<epc, converted>>
    /\ bug_idx' = bug_idx + 1
    /\ UNCHANGED <<source_lines, report_len, output_file>>
    /\ UNCHANGED extractOther

\* lines 209-214: the records are written and True is returned; a failing
\* write is caught at line 222
WriteOutput ==
    /\ epc = "loop"
    /\ bug_idx = report_len
    /\ \E write_ok \in BOOLEAN :
          IF write_ok
          THEN /\ output_file' = [written |-> TRUE, bugs |-> processed_bugs]
               /\ converted' = "True"
          ELSE /\ output_file' = output_file
               /\ converted' = "False"
    /\ epc' = "done"
    /\ UNCHANGED <<source_lines, report_len, bug_idx, processed_bugs, dispositions,
                   range_rejected>>
    /\ UNCHANGED extractOther

ExtractNext ==
    \/ ReadReport
    \/ ProcessBug
    \/ WriteOutput

(***************************************************************************)
(*                     detect_java_version, one call                       *)
(***************************************************************************)

\* What re.search finds for one of the four patterns in a file's text:
\* "absent" (the keyword is not in the text), "nomatch" (the keyword is there
\* but no digits follow it as the pattern requires), or the digits of group 1.
Digits == {"11", "17"}
Matches == {"absent", "nomatch"} \cup Digits

NoFile == [kind |-> "absent"]
\* a file that exists and whose open() or read() raises
Unreadable == [kind |-> "unreadable"]
GradleFiles == {NoFile, Unreadable} \cup
    [kind : {"text"}, sourceCompatibility : Matches, targetCompatibility : Matches]
PomFiles == {NoFile, Unreadable} \cup
    [kind : {"text"}, source : Matches, target : Matches]

\* the literal returned at lines 240 and 243
DefaultVersion == "21"

\* pattern: 1 sourceCompatibility, 2 targetCompatibility,
\* 3 maven.compiler.source, 4 maven.compiler.target, 0 none
Returned(v, k) == [version |-> v, pattern |-> k, raised |-> FALSE, caught |-> FALSE]
NoMatch == [version |-> "none", pattern |-> 0, raised |-> FALSE, caught |-> FALSE]
\* an exception leaving the try block of lines 208-240
ReadError == [version |-> "none", pattern |-> 0, raised |-> TRUE, caught |-> FALSE]

\* lines 215-222, with the two tests the other way round
SearchGradleTargetFirst(content) ==
    IF content.targetCompatibility \in Digits
        THEN Returned(content.targetCompatibility, 2)
    ELSE IF content.sourceCompatibility \in Digits
        THEN Returned(content.sourceCompatibility, 1)
    ELSE NoMatch

\* lines 215-222: sourceCompatibility, then targetCompatibility
SearchGradle(content) ==
    IF content.sourceCompatibility \in Digits
        THEN Returned(content.sourceCompatibility, 1)
    ELSE IF content.targetCompatibility \in Digits
        THEN Returned(content.targetCompatibility, 2)
    ELSE NoMatch

\* lines 230-237: maven.compiler.source, then maven.compiler.target
SearchPom(content) ==
    IF content.source \in Digits THEN Returned(content.source, 3)
    ELSE IF content.target \in Digits THEN Returned(content.target, 4)
    ELSE NoMatch

\* lines 209-240, the body of the try: build.gradle is read first and pom.xml
\* only when build.gradle gave no match
DetectBody(gradle, pom) ==
    IF gradle = Unreadable THEN ReadError
    ELSE IF gradle # NoFile /\ SearchGradle(gradle) # NoMatch THEN SearchGradle(gradle)
    ELSE IF pom = Unreadable THEN ReadError
    ELSE IF pom # NoFile /\ SearchPom(pom) # NoMatch THEN SearchPom(pom)
    ELSE Returned(DefaultVersion, 0)

\* detect_java_version without the handler of lines 241-243
DetectJavaVersionUncaught(gradle, pom) == DetectBody(gradle, pom)

\* detect_java_version: the handler of lines 241-243 turns every exception of
\* the body into the default
DetectJavaVersion(gradle, pom) ==
    IF DetectBody(gradle, pom).raised
        THEN [version |-> DefaultVersion, pattern |-> 0, raised |-> FALSE, caught |-> TRUE]
        ELSE DetectBody(gradle, pom)

NotDetected == [version |-> "none", pattern |-> 0, raised |-> FALSE, caught |-> FALSE]

DetectIdle ==
    /\ vpc = "idle"
    /\ gradle_file = NoFile
    /\ pom_file = NoFile
    /\ detected = NotDetected

DetectInit ==
    /\ vpc = "call"
    /\ gradle_file \in GradleFiles
    /\ pom_file \in PomFiles
    /\ detected = NotDetected

DetectCall ==
    /\ vpc = "call"
    /\ detected' = DetectJavaVersion(gradle_file, pom_file)
    /\ vpc' = "returned"
    /\ UNCHANGED <<gradle_file, pom_file>>
    /\ UNCHANGED detectOther

DetectNext == DetectCall

(***************************************************************************)
(*               run_infer in two threads of one process                   *)
(***************************************************************************)

\* Thread t runs InferAnalyzer(project t).run_infer(); the two project paths
\* are absolute and differ. run_infer enters its project with os.chdir (line
\* 154) and names its output directory by the relative path "infer-out"
\* (line 161), which every later step resolves against the working directory
\* of the process at the time of the step.
Threads == {1, 2}

\* where Path("infer-out") points when a step of run_infer uses it
InferOutProject == process_cwd

Act(t, op) == [thread |-> t, project |-> InferOutProject, op |-> op]

PairIdle ==
    /\ tpc = [t \in Threads |-> "idle"]
    /\ process_cwd = 0
    /\ out_dir = [p \in Threads |-> FALSE]
    /\ report_in = [p \in Threads |-> FALSE]
    /\ tattempt = [t \in Threads |-> 0]
    /\ tresult = [t \in Threads |-> "none"]
    /\ accessed = {}

PairInit ==
    /\ tpc = [t \in Threads |-> "start"]
    /\ process_cwd = 0
    /\ out_dir \in [Threads -> BOOLEAN]
    /\ report_in \in [Threads -> BOOLEAN]
    /\ \A p \in Threads : report_in[p] => out_dir[p]
    /\ tattempt = [t \in Threads |-> 0]
    /\ tresult = [t \in Threads |-> "none"]
    /\ accessed = {}

ThreadReturn(t, value) ==
    /\ tpc' = [tpc EXCEPT ![t] = "done"]
    /\ tresult' = [tresult EXCEPT ![t] = value]

ThreadGoto(t, position) ==
    /\ tpc' = [tpc EXCEPT ![t] = position]
    /\ tresult' = tresult

\* lines 150-158: the project directory exists and becomes the working
\* directory of the process
ThreadEnter(t) ==
    /\ tpc[t] = "start"
    /\ process_cwd' = t
    /\ ThreadGoto(t, "cleanup")
    /\ UNCHANGED <<out_dir, report_in, tattempt, accessed>>
    /\ UNCHANGED pairOther

\* lines 162-190, one iteration of the cleanup loop
ThreadCleanup(t) ==
    /\ tpc[t] = "cleanup"
    /\ tattempt[t] < CLEANUP_ATTEMPTS
    /\ IF ~out_dir[InferOutProject]
       THEN /\ accessed' = accessed \cup {Act(t, "exists")}
            /\ tattempt' = [tattempt EXCEPT ![t] = @ + 1]
            /\ UNCHANGED <<tpc, tresult, out_dir, report_in>>
       ELSE \E after \in BOOLEAN, raised \in BOOLEAN :
            /\ accessed' = accessed \cup {Act(t, "exists"), Act(t, "rmtree")}
            /\ out_dir' = [out_dir EXCEPT ![InferOutProject] = after]
            /\ report_in' = [report_in EXCEPT ![InferOutProject] = @ /\ after]
            /\ IF raised
               THEN IF tattempt[t] = LAST_ATTEMPT
                    THEN ThreadReturn(t, "False") /\ tattempt' = tattempt
                    ELSE ThreadGoto(t, "cleanup")
                         /\ tattempt' = [tattempt EXCEPT ![t] = @ + 1]
               ELSE IF ~after
                    THEN ThreadGoto(t, "build") /\ tattempt' = tattempt
                    ELSE ThreadGoto(t, "cleanup")
                         /\ tattempt' = [tattempt EXCEPT ![t] = @ + 1]
    /\ UNCHANGED process_cwd
    /\ UNCHANGED pairOther

\* the cleanup loop is exhausted
ThreadCleanupExhausted(t) ==
    /\ tpc[t] = "cleanup"
    /\ tattempt[t] >= CLEANUP_ATTEMPTS
    /\ ThreadGoto(t, "build")
    /\ UNCHANGED <<process_cwd, out_dir, report_in, tattempt, accessed>>
    /\ UNCHANGED pairOther

\* lines 214-225: subprocess.run(cmd, env=env, ...) is given no cwd, so the
\* wrapped build runs in the working directory of the process and leaves its
\* infer-out there
ThreadBuild(t) ==
    /\ tpc[t] = "build"
    /\ \E out \in BOOLEAN, rep \in BOOLEAN :
          /\ rep => out
          /\ out_dir' = [out_dir EXCEPT ![InferOutProject] = out]
          /\ report_in' = [report_in EXCEPT ![InferOutProject] = rep]
    /\ ThreadGoto(t, "capture")
    /\ UNCHANGED <<process_cwd, tattempt, accessed>>
    /\ UNCHANGED pairOther

\* lines 227-241
ThreadCapture(t) ==
    /\ tpc[t] = "capture"
    /\ accessed' = accessed \cup {Act(t, "exists")}
    /\ IF CaptureFailed(out_dir[InferOutProject])
       THEN ThreadReturn(t, "False") /\ tattempt' = tattempt
       ELSE ThreadGoto(t, "report") /\ tattempt' = [tattempt EXCEPT ![t] = 0]
    /\ UNCHANGED <<process_cwd, out_dir, report_in>>
    /\ UNCHANGED pairOther

\* lines 244-256, one iteration of the report loop; "infer report" too runs
\* in the working directory of the process
ThreadReport(t) ==
    /\ tpc[t] = "report"
    /\ tattempt[t] < REPORT_ATTEMPTS
    /\ accessed' = accessed \cup {Act(t, "report exists")}
    /\ IF report_in[InferOutProject]
       THEN /\ tattempt' = [tattempt EXCEPT ![t] = @ + 1]
            /\ UNCHANGED <<tpc, tresult, report_in, out_dir>>
       ELSE \E exit \in {"ok", "error"}, produced \in BOOLEAN :
            /\ report_in' = [report_in EXCEPT ![InferOutProject] = produced]
            /\ out_dir' = [out_dir EXCEPT ![InferOutProject] = @ \/ produced]
            /\ IF exit = "ok"
               THEN IF produced
                    THEN ThreadReturn(t, "True") /\ tattempt' = tattempt
                    ELSE ThreadGoto(t, "report")
                         /\ tattempt' = [tattempt EXCEPT ![t] = @ + 1]
               ELSE IF tattempt[t] = LAST_ATTEMPT
                    THEN ThreadReturn(t, "False") /\ tattempt' = tattempt
                    ELSE ThreadGoto(t, "report")
                         /\ tattempt' = [tattempt EXCEPT ![t] = @ + 1]
    /\ UNCHANGED process_cwd
    /\ UNCHANGED pairOther

\* the report loop is exhausted: lines 258-259
ThreadReportExhausted(t) ==
    /\ tpc[t] = "report"
    /\ tattempt[t] >= REPORT_ATTEMPTS
    /\ ThreadReturn(t, "True")
    /\ UNCHANGED <<process_cwd, out_dir, report_in, tattempt, accessed>>
    /\ UNCHANGED pairOther

PairNext ==
    \/ \E t \in Threads : ThreadEnter(t)
    \/ \E t \in Threads : ThreadCleanup(t)
    \/ \E t \in Threads : ThreadCleanupExhausted(t)
    \/ \E t \in Threads : ThreadBuild(t)
    \/ \E t \in Threads : ThreadCapture(t)
    \/ \E t \in Threads : ThreadReport(t)
    \/ \E t \in Threads : ThreadReportExhausted(t)

(***************************************************************************)
(*                            Specifications                               *)
(***************************************************************************)

Init == InferInit /\ DiscIdle /\ BatchIdle /\ WorkerIdle /\ ExtractIdle /\ DetectIdle
                  /\ PairIdle
Next == InferNext
Spec == Init /\ [][Next]_vars
\* every external command run_infer starts returns, and the thread keeps
\* running: a step that can be taken is taken
SpecReturning == Init /\ [][Next]_vars /\ WF_vars(Next)

InitDiscovery == InferIdle /\ DiscInit /\ BatchIdle /\ WorkerIdle /\ ExtractIdle /\ DetectIdle
                  /\ PairIdle
NextDiscovery == DiscNext
SpecDiscovery == InitDiscovery /\ [][NextDiscovery]_vars
\* the thread keeps running: a step that changes the state is taken
SpecDiscoveryRunning == InitDiscovery /\ [][NextDiscovery]_vars
                            /\ WF_vars(NextDiscovery)

InitBatch == InferIdle /\ DiscIdle /\ BatchInit /\ WorkerIdle /\ ExtractIdle /\ DetectIdle
                  /\ PairIdle
NextBatch == BatchNext
SpecBatch == InitBatch /\ [][NextBatch]_vars

InitWorker == InferIdle /\ DiscIdle /\ BatchIdle /\ WorkerInit /\ ExtractIdle /\ DetectIdle
                  /\ PairIdle
NextWorker == WorkerNext
SpecWorker == InitWorker /\ [][NextWorker]_vars

InitExtract == InferIdle /\ DiscIdle /\ BatchIdle /\ WorkerIdle /\ ExtractInit /\ DetectIdle
                  /\ PairIdle
NextExtract == ExtractNext
SpecExtract == InitExtract /\ [][NextExtract]_vars

InitDetect == InferIdle /\ DiscIdle /\ BatchIdle /\ WorkerIdle /\ ExtractIdle
                  /\ DetectInit /\ PairIdle
NextDetect == DetectNext
SpecDetect == InitDetect /\ [][NextDetect]_vars

InitPair == InferIdle /\ DiscIdle /\ BatchIdle /\ WorkerIdle /\ ExtractIdle
                  /\ DetectIdle /\ PairInit
NextPair == PairNext
SpecPair == InitPair /\ [][NextPair]_vars

(***************************************************************************)
(*                                 Claims                                  *)
(***************************************************************************)

\* C1: if infer-out still exists after the 3rd deletion attempt, run_infer
\* returns False and the build command is never dispatched, whether the
\* attempts fail silently or by raising.
C1_StaleCleanupIsError ==
    cleanup_left_stale =>
        /\ build_calls = 0
        /\ pc \in {"cleanup", "done"}
        /\ pc = "done" => result = "False"

\* C2: run_infer returns True only if infer-out/report.json exists at that
\* moment.
C2_DoneOnlyWithReport ==
    (pc = "done" /\ result = "True") => report_exists

\* C3: at most 3 deletion attempts are made in a run, and once an attempt has
\* left infer-out absent no further deletion attempt is made.
C3_CleanupBounded ==
    /\ rmtree_calls <= 3
    /\ cleared_at # 0 => rmtree_calls = cleared_at

\* C3 witness: the 2nd attempt cleared infer-out and the run went on to its end
C3_ClearedOnSecondAttempt ==
    /\ cleared_at = 2
    /\ rmtree_calls = 2
    /\ pc = "done"
    /\ build_calls = 1

\* P is a strict ancestor directory of Q (absolute, normalised paths)
StrictAncestor(P, Q) ==
    /\ Len(P) < Len(Q)
    /\ SubSeq(Q, 1, Len(P)) = P

\* C4: no two distinct paths of the list find_java_projects builds are in a
\* strict ancestor/descendant relation.
C4_NoNestedProjects ==
    \A i, j \in 1..Len(java_projects) :
        i # j => ~StrictAncestor(java_projects[i], java_projects[j])

\* C4 witness: the call returned two projects, and a directory holding a
\* descriptor below one of them was collapsed into it
C4_NestedModuleCollapsed ==
    /\ dpc = "done"
    /\ Len(java_projects) >= 2
    /\ \E d \in descriptors : \E i \in 1..Len(java_projects) :
          /\ StrictAncestor(java_projects[i], d)
          /\ ~IsAndroidPath(AbsString(d))

\* C5: find_java_projects never returns a path at or under a directory whose
\* path contains "android" (case-insensitive).
C5_NoAndroidProject ==
    dpc = "done" =>
        \A i \in 1..Len(java_projects) : ~IsAndroidPath(AbsString(java_projects[i]))

Started(p) == future[p] \in {"running", "finished", "collected"}
Completed(p) == future[p] \in {"finished", "collected"}
Grouped(p) == \E i \in 1..Len(projects_by_java_version) :
                  p \in Range(projects_by_java_version[i].projects)

\* C6: no worker of a later group is started before every worker of each
\* earlier group has completed (an earlier group has no worker only when its
\* runtime installation is missing), so workers of two groups never run at
\* the same time.
C6_GroupBarrier ==
    /\ \A p, q \in DOMAIN future :
          (Grouped(p) /\ Grouped(q) /\ GroupOf(p) < GroupOf(q) /\ Started(q)) =>
              \/ Completed(p)
              \/ future[p] = "none" /\ version[p] \notin installed
    /\ \A p, q \in Running : version[p] = version[q]

\* C6 witness: a worker of the second group runs after both workers of the
\* first group have completed
C6_SecondGroupRunning ==
    \E p, q, r \in DOMAIN future :
        /\ p # q
        /\ Grouped(p) /\ Grouped(q) /\ Grouped(r)
        /\ GroupOf(p) = 1 /\ GroupOf(q) = 1 /\ GroupOf(r) = 2
        /\ Completed(p) /\ Completed(q)
        /\ future[r] = "running"

\* the versions of the groups that have a worker queued or started
GroupsAtWork == { version[p] : p \in { q \in DOMAIN future : future[q] # "none" } }

\* C7: JAVA_HOME and PATH are written only by the scheduler between groups:
\* no step changes them while a worker is running, and they are written
\* exactly once per processed group, before that group's first worker starts.
C7_EnvWrittenBetweenGroups ==
    /\ [](/\ \A v \in Versions : env_writes[v] <= 1
          /\ \A v \in GroupsAtWork : env_writes[v] = 1
          /\ \A v \in Versions : env_writes[v] = 1 => v \in installed
          /\ Running # {} => environ.JAVA_HOME = CurrentGroup.java_version
          /\ Len(environ.PATH) = Cardinality({v \in Versions : env_writes[v] > 0}))
    /\ [][/\ Running # {} => environ' = environ
          /\ environ' # environ => spc = "next_group"]_vars

\* C7 witness: two workers of the second processed group run, after the
\* environment has been written for the second time
C7_TwoWorkersAfterSecondWrite ==
    /\ Cardinality(Running) = 2
    /\ Len(environ.PATH) = 2
    /\ gidx = 2

\* C8: at most max_workers project tasks execute at any moment, and a queued
\* task of the group can start whenever the pool has capacity left, whatever
\* the running tasks are doing.
C8_PoolBound ==
    /\ Cardinality(Running) <= max_workers
    /\ \A p \in DOMAIN future :
          (future[p] = "pending" /\ Cardinality(Running) < max_workers) =>
              \E q \in DOMAIN future : ENABLED WorkerStart(q)

\* C8 witness: the default pool of 2 is full and a third task of the group waits
C8_PoolFullOneWaiting ==
    /\ max_workers = 2
    /\ Cardinality(Running) = 2
    /\ \E p \in DOMAIN future : future[p] = "pending"

OutcomesOf(p) ==
    Cardinality({ i \in 1..Len(all_results) : all_results[i].project = p })

\* C9: when every group's runtime installation exists, each discovered
\* project is run by one worker once and contributes one outcome, so the
\* outcomes number as many as the projects, in every completion order.
C9_OneOutcomePerProject ==
    /\ \A p \in DOMAIN future : exec_count[p] <= 1 /\ OutcomesOf(p) <= 1
    /\ (spc = "done" /\ \A p \in DOMAIN future : version[p] \in installed) =>
          /\ Len(all_results) = Len(batch_projects)
          /\ \A p \in DOMAIN future : exec_count[p] = 1 /\ OutcomesOf(p) = 1

\* C9 witness: 2 projects on "11" and 1 on "17" ended with 3 outcomes, the
\* second project's outcome arriving before the first's
C9_ThreeOutcomesOutOfOrder ==
    /\ spc = "done"
    /\ Len(batch_projects) = 3
    /\ version = <<"11", "11", "17">>
    /\ installed = Versions
    /\ Len(all_results) = 3
    /\ all_results[1].project = 2

\* C10: after run_analysis every discovered project has an outcome with a
\* status in the result list, also a project whose group's runtime
\* installation is missing.
C10_EveryProjectHasOutcome ==
    (spc = "done" /\ batch_projects # <<>>) =>
        \A p \in DOMAIN future :
            \E i \in 1..Len(all_results) :
                /\ all_results[i].project = p
                /\ all_results[i].status \in {"success", "error"}

\* the results appended for p that carry status st
OutcomesWith(p, st) ==
    { i \in 1..Len(all_results) :
        all_results[i].project = p /\ all_results[i].status = st }

\* C11: a worker whose execution raises produces an error outcome for its
\* project; after a raise the run is never stuck before its end, and at its
\* end every sibling of the raising worker and every project of a later group
\* whose runtime is installed has run and has its one outcome, and the
\* summary has been saved.
C11_FaultIsErrorOutcome ==
    /\ \A p \in faulted :
          /\ Completed(p)
          /\ outcome[p].status = "error"
          /\ future[p] = "collected" => Cardinality(OutcomesWith(p, "error")) = 1
    /\ (faulted # {} /\ spc # "done") => ENABLED BatchNext
    /\ (faulted # {} /\ spc = "done") =>
          /\ summary_writes = 1
          /\ gidx = Len(projects_by_java_version)
          /\ \A q \in DOMAIN future :
                version[q] \in installed =>
                    future[q] = "collected" /\ OutcomesOf(q) = 1

\* C11 witness: the first worker of the first group raised, its sibling and
\* the project of the second group succeeded after it, and the run ended
C11_SiblingAndLaterGroupAfterFault ==
    /\ spc = "done"
    /\ faulted = {1}
    /\ Len(all_results) = 3
    /\ all_results[1].project = 1 /\ all_results[1].status = "error"
    /\ \E i, j \in 2..3 :
          /\ all_results[i].project = 2 /\ all_results[i].status = "success"
          /\ all_results[j].project = 3 /\ all_results[j].status = "success"
    /\ version = <<"11", "11", "17">>

\* the groups the for loop has passed whose runtime installation is missing
SkippedGroups ==
    { i \in 1..Len(projects_by_java_version) :
        i <= gidx /\ projects_by_java_version[i].java_version \notin installed }

\* C12: for a group whose runtime installation path does not exist no worker
\* is queued or started for any of its projects and the environment is not
\* written for it; the loop is never stuck after skipping it, and at the end
\* of the run every later group whose runtime exists has been processed.
C12_MissingRuntimeSkipsGroup ==
    /\ \A p \in DOMAIN future :
          version[p] \notin installed =>
              future[p] = "none" /\ exec_count[p] = 0 /\ OutcomesOf(p) = 0
    /\ \A v \in Versions \ installed :
          /\ env_writes[v] = 0
          /\ environ.JAVA_HOME # v
          /\ v \notin Range(environ.PATH)
    /\ (SkippedGroups # {} /\ spc # "done") => ENABLED BatchNext
    /\ (SkippedGroups # {} /\ spc = "done") =>
          /\ gidx = Len(projects_by_java_version)
          /\ \A i \in 1..Len(projects_by_java_version) :
                projects_by_java_version[i].java_version \in installed =>
                    /\ env_writes[projects_by_java_version[i].java_version] = 1
                    /\ \A q \in Range(projects_by_java_version[i].projects) :
                          exec_count[q] = 1 /\ OutcomesOf(q) = 1

\* C12 witness: the first group ("11", two projects) was skipped for its
\* missing runtime, and the later group ("17") was then processed to its end
C12_LaterGroupRunAfterSkip ==
    /\ spc = "done"
    /\ version = <<"11", "17", "11">>
    /\ installed = {"17"}
    /\ SkippedGroups = {1}
    /\ exec_count = <<0, 1, 0>>
    /\ Len(all_results) = 1 /\ all_results[1].project = 2
    /\ environ = [JAVA_HOME |-> "17", PATH |-> <<"17">>]

\* C13: after the wrapped build has exited non-zero, run_infer is at the
\* capture check or beyond it; it returns False only when infer-out is then
\* absent or the report step had to be run, and when infer-out and
\* report.json exist after the build it goes on (is never stuck) and returns
\* True.
C13_BuildFailureIsWarning ==
    build_rc > 0 =>
        /\ pc \in {"capture", "state_file", "report", "done"}
        /\ (pc = "done" /\ result = "False") =>
               ~infer_out_exists \/ report_calls > 0
        /\ (infer_out_exists /\ report_exists /\ report_calls = 0) =>
               /\ pc = "done" => result = "True"
               /\ pc # "done" => ENABLED InferNext

\* C13 witness: the build exited non-zero having written infer-out and
\* report.json, and run_infer returned True without running the report step
C13_DoneAfterFailedBuild ==
    /\ build_rc > 0
    /\ pc = "done"
    /\ result = "True"
    /\ infer_out_exists /\ report_exists
    /\ report_calls = 0

\* the build named b was dispatched and exited non-zero
BuildExitedNonZero(b) ==
    /\ \E i \in 1..Len(wresult.builds) : wresult.builds[i] = b
    /\ wfault # b
    /\ wexits[b] > 0

\* C14: analyze_project does not return status "error" for a project whose
\* build was launched and exited non-zero.
C14_BuildExitIsRecoverable ==
    (wpc = "returned" /\ (BuildExitedNonZero("gradle") \/ BuildExitedNonZero("maven"))) =>
        wresult.status # "error"

\* the project holds exactly one descriptor
MavenOnly == wfiles.pom /\ ~wfiles.build_gradle
GradleOnly == wfiles.build_gradle /\ ~wfiles.pom

\* C15: analyze_project returns status "success" for a project that holds
\* exactly one descriptor, whose builds are launched and exit zero.
C15_OneDescriptorSucceeds ==
    (/\ wpc = "returned"
     /\ MavenOnly \/ GradleOnly
     /\ wfault = "none"
     /\ wexits = [gradle |-> 0, maven |-> 0]) =>
        wresult.status = "success"

\* C16: for a project directory holding both pom.xml and build.gradle,
\* run_infer dispatches no build and returns False.
C16_BothDescriptorsIsError ==
    (project_files.pom /\ project_files.gradle) =>
        /\ build_calls = 0
        /\ pc = "done" => result = "False"

\* C17: when infer-out does not exist after the build step, run_infer goes
\* from the capture check straight to returning False, and "infer report"
\* is never invoked.
C17_CaptureFailedIsError ==
    /\ (build_rc >= 0 /\ ~infer_out_exists) =>
          /\ pc \in {"capture", "done"}
          /\ pc = "capture" => ENABLED CaptureCheck
          /\ pc = "done" => result = "False"
          /\ report_calls = 0
    /\ pc \in {"state_file", "report"} => infer_out_exists
    /\ report_calls > 0 => infer_out_exists

\* C17 witness: the build ran and left no infer-out, and run_infer returned
\* False without a report attempt
C17_ReturnedAfterMissingCapture ==
    /\ build_calls = 1
    /\ build_rc >= 0
    /\ ~infer_out_exists
    /\ pc = "done"
    /\ result = "False"
    /\ report_calls = 0

\* the file path contains "test" in some spelling of upper and lower case
ContainsTest(file_path) ==
    \E i \in 1..Len(file_path) : file_path[i] \in {"test", "Test"}

\* C18: no record built or written by convert_json_to_json has a file path
\* that contains "test" in any case, whatever the findings taken so far.
C18_NoTestFileRecord ==
    /\ \A i \in 1..Len(processed_bugs) : ~ContainsTest(processed_bugs[i].file)
    /\ \A i \in 1..Len(output_file.bugs) : ~ContainsTest(output_file.bugs[i].file)

\* C18 witness: a finding in a test file was skipped, the next finding was
\* emitted, and the one record was written
C18_TestSkippedThenEmitted ==
    /\ dispositions = <<"test", "emitted">>
    /\ output_file.written
    /\ Len(output_file.bugs) = 1
    /\ output_file.bugs[1].file = PathMain

\* C19: every record has its line_number within [method_start_line,
\* method_end_line] (1-based, inclusive), the range get_method_code returned
\* for it.
C19_LineWithinMethod ==
    \A i \in 1..Len(processed_bugs) :
        /\ processed_bugs[i].method_start_line <= processed_bugs[i].line_number
        /\ processed_bugs[i].line_number <= processed_bugs[i].method_end_line

\* the trace of record r has an entry within the method's range
HasInRangeEntry(r) ==
    \E k \in 1..Len(r.bug_trace) :
        /\ r.method_start_line <= r.bug_trace[k]
        /\ r.bug_trace[k] <= r.method_end_line

\* C20: for every record whose trace has an entry within [method_start_line,
\* method_end_line], bug_end_line lies within that range.
C20_BugEndWithinMethod ==
    \A i \in 1..Len(processed_bugs) :
        HasInRangeEntry(processed_bugs[i]) =>
            /\ processed_bugs[i].method_start_line <= processed_bugs[i].bug_end_line
            /\ processed_bugs[i].bug_end_line <= processed_bugs[i].method_end_line

\* C20 witness: a written record whose trace holds a line beyond the method's
\* end before a line inside the method, and a bug_end_line inside the method
C20_TraceLeavesMethod ==
    /\ output_file.written
    /\ \E i \in 1..Len(output_file.bugs) :
          /\ Len(output_file.bugs[i].bug_trace) = 2
          /\ output_file.bugs[i].bug_trace[1] > output_file.bugs[i].method_end_line
          /\ HasInRangeEntry(output_file.bugs[i])
          /\ output_file.bugs[i].bug_end_line = output_file.bugs[i].bug_trace[2]

\* C21: a located finding whose trace has no entry within
\* [method_start_line, method_end_line] (an empty trace included) is still
\* emitted, never ends the conversion, and its record has bug_end_line equal
\* to bug_start_line.
C21_NoInRangeEntryFallsBack ==
    /\ \A i \in 1..Len(dispositions) : dispositions[i] # "raised"
    /\ \A i \in 1..Len(processed_bugs) :
          ~HasInRangeEntry(processed_bugs[i]) =>
              processed_bugs[i].bug_end_line = processed_bugs[i].bug_start_line

\* the findings taken so far that were in no test file and were located
LocatedFindings ==
    { i \in 1..Len(dispositions) : dispositions[i] \in {"emitted", "raised"} }

\* C22: when a finding taken so far was not located, every other finding
\* taken so far that is in no test file and was located has its record.
C22_UnlocatedSkipsOnlyItself ==
    (\E i \in 1..Len(dispositions) : dispositions[i] = "unlocated") =>
        Len(processed_bugs) = Cardinality(LocatedFindings)

\* C23: the bug_ids of the records built, and of the records written, are
\* 1, 2, ..., n in emission order, whatever findings were skipped between.
C23_SequentialBugIds ==
    /\ \A i \in 1..Len(processed_bugs) : processed_bugs[i].bug_id = i
    /\ \A i \in 1..Len(output_file.bugs) : output_file.bugs[i].bug_id = i
    /\ Len(processed_bugs) =
          Cardinality({ i \in 1..Len(dispositions) : dispositions[i] = "emitted" })

\* C23 witness: a finding in a test file or an unlocated finding was skipped
\* before an emitted one, whose record was written with bug_id 1
C23_SkippedAroundEmitted ==
    /\ output_file.written
    /\ Len(output_file.bugs) = 1
    /\ output_file.bugs[1].bug_id = 1
    /\ \E i, j \in 1..Len(dispositions) :
          /\ i < j
          /\ dispositions[i] \in {"test", "unlocated"}
          /\ dispositions[j] = "emitted"

\* the 1-based lines of the source file at or before line L that contain the
\* method name
NameLinesUpTo(L) ==
    { j \in 1..Len(source_lines) : j <= L /\ source_lines[j].name }

\* C24: the declaration line of every record (method_start_line) is the
\* nearest line at or before the finding's line that contains the method
\* name.
C24_NearestDeclarationAbove ==
    \A i \in 1..Len(processed_bugs) :
        /\ NameLinesUpTo(processed_bugs[i].line_number) # {}
        /\ processed_bugs[i].method_start_line =
              Max(NameLinesUpTo(processed_bugs[i].line_number))

\* the 1-based lines strictly after line s at which the brace balance counted
\* from line s on is zero
ZeroBalanceAfter(s) ==
    { e \in (s + 1)..Len(source_lines) : BraceCount(source_lines, s - 1, e - 1) = 0 }

\* C25: in every record method_end_line is the first line strictly after
\* method_start_line at which the brace balance counted from the declaration
\* line on is zero, and a declaration line that is itself balanced is never
\* the method's end line.
C25_EndIsFirstBalancedLineAfter ==
    \A i \in 1..Len(processed_bugs) :
        LET s == processed_bugs[i].method_start_line
            e == processed_bugs[i].method_end_line
        IN /\ \A z \in ZeroBalanceAfter(s) : e <= z
           /\ ZeroBalanceAfter(s) # {} => e \in ZeroBalanceAfter(s)
           /\ source_lines[s].opens = source_lines[s].closes => e > s

\* the absolute, normalised path of the root argument
RootPath == Abspath(directory, cwd)

\* C26: every path find_java_projects registers is the root directory or a
\* descendant of it, for each form of the root argument.
C26_RegisteredUnderRoot ==
    \A i \in 1..Len(java_projects) :
        \/ java_projects[i] = RootPath
        \/ StrictAncestor(RootPath, java_projects[i])

\* what the four patterns find, in the order of the source, in the files a
\* call can read
PatternMatches ==
    << IF gradle_file \in {NoFile, Unreadable} THEN "absent" ELSE gradle_file.sourceCompatibility,
       IF gradle_file \in {NoFile, Unreadable} THEN "absent" ELSE gradle_file.targetCompatibility,
       IF pom_file \in {NoFile, Unreadable} THEN "absent" ELSE pom_file.source,
       IF pom_file \in {NoFile, Unreadable} THEN "absent" ELSE pom_file.target >>
NumericPatterns == { k \in 1..4 : PatternMatches[k] \in Digits }

\* C27: detect_java_version returns the first numeric match in the order
\* sourceCompatibility, targetCompatibility, maven.compiler.source,
\* maven.compiler.target: the value of a pattern is returned only when no
\* earlier pattern has a numeric match, and when every descriptor can be read
\* and some pattern matches, the value of the first one that does is returned.
C27_FirstNumericMatchInOrder ==
    vpc = "returned" =>
        /\ detected.pattern # 0 =>
              /\ detected.pattern \in NumericPatterns
              /\ detected.version = PatternMatches[detected.pattern]
              /\ \A j \in NumericPatterns : detected.pattern <= j
        /\ (NumericPatterns # {} /\ ~detected.caught) => detected.pattern # 0
\* a later pattern's value returned past earlier patterns that are present
\* without a numeric match
C27_MavenTargetReturned ==
    /\ vpc = "returned"
    /\ detected.pattern = 4
    /\ gradle_file # NoFile
    /\ gradle_file.sourceCompatibility = "nomatch"
    /\ pom_file.source = "nomatch"
    /\ detected.version = "17"

\* C28: detect_java_version is total: it never raises to its caller, and when
\* a descriptor it opens cannot be read or none of the four patterns has a
\* numeric match it returns the default "21".
C28_TotalWithDefault ==
    vpc = "returned" =>
        /\ ~detected.raised
        /\ detected.version \in Digits \cup {"21"}
        /\ detected.caught => detected.version = "21"
        /\ NumericPatterns = {} => detected.version = "21"
\* the default returned for an unreadable descriptor beside a readable one
\* with a numeric match
C28_UnreadableGivesDefault ==
    /\ vpc = "returned"
    /\ gradle_file = Unreadable
    /\ pom_file # NoFile
    /\ pom_file # Unreadable
    /\ pom_file.source = "17"
    /\ detected.caught
    /\ detected.version = "21"

C30_FallbackToWorkingDirectory ==
    (/\ summary_writes = 1
     /\ ~(summary.makedirs_ok /\ summary.write_ok)
     /\ summary.fallback_ok) =>
        /\ summary.file = "cwd"
        /\ summary.results = all_results

\* C31: when two threads run run_infer for two different projects, every
\* existence test and deletion of an output directory made by a thread's
\* cleanup, capture check and report check acts on the output directory of
\* that thread's own project.
C31_OwnOutputDirectoryOnly ==
    \A a \in accessed : a.project = a.thread

\* the position of a step in the order permission check, artifact cleanup,
\* build dispatch, capture check, report generation
StepRank(s) ==
    CASE s = "permissions" -> 1
      [] s = "cleanup" -> 2
      [] s = "build" -> 3
      [] s = "capture" -> 4
      [] s = "report" -> 5

\* C32: run_infer performs its steps in the order permission check passed,
\* cleanup finished, build dispatched, capture check passed, report
\* generation: each step but report generation happens at most once and only
\* directly after the step before it; a run that has returned has returned
\* True or False and takes no further step; and when every external command
\* returns, every run returns.
C32_StepsInOrderThenEnd ==
    /\ [](/\ \A i \in 1..Len(steps) :
                IF i = 1 THEN steps[i] = "permissions"
                ELSE \/ StepRank(steps[i]) = StepRank(steps[i - 1]) + 1
                     \/ steps[i] = "report" /\ steps[i - 1] = "report"
          /\ build_calls <= 1
          /\ build_calls = Cardinality({ i \in 1..Len(steps) : steps[i] = "build" })
          /\ report_calls = Cardinality({ i \in 1..Len(steps) : steps[i] = "report" })
          /\ (pc = "done") <=> (result \in {"True", "False"})
          /\ result \in {"none", "True", "False"})
    /\ [][pc # "done"]_vars
    /\ <>(pc = "done")

\* C32 witness: a run that took every step, the report generated at the
\* second invocation, and returned True
C32_AllStepsThenDone ==
    /\ pc = "done"
    /\ result = "True"
    /\ steps = <<"permissions", "cleanup", "build", "capture", "report", "report">>
    /\ rmtree_calls >= 1
\* C33: "infer report" is invoked at most 3 times in a run, only while
\* report.json is missing, and never again after an invocation has left
\* report.json in place.
C33_ReportInvocationsBounded ==
    /\ [](report_calls <= 3)
    /\ [][report_calls' # report_calls =>
             /\ pc = "report"
             /\ ~report_exists
             /\ report_calls' = report_calls + 1]_vars
    /\ [][(pc = "report" /\ report_exists) =>
             (report_exists' /\ report_calls' = report_calls)]_vars

\* C33 witness: the third invocation produced the report and the run returned
C33_ThirdInvocationProduced ==
    /\ pc = "done"
    /\ result = "True"
    /\ report_calls = 3
    /\ report_exists

\* C34: the builds of a project are given the runtime home of the project's
\* own version, whose installation exists, and a project's worker runs only
\* while the group of that version is the one being processed.
C34_BuiltWithOwnRuntime ==
    \A p \in DOMAIN future :
        /\ (build_home[p] = "none") <=> (future[p] \in {"none", "pending"})
        /\ build_home[p] # "none" =>
              /\ build_home[p] = version[p]
              /\ build_home[p] \in installed
        /\ future[p] = "running" =>
              /\ projects_by_java_version[gidx].java_version = build_home[p]
              /\ \E i \in 1..Len(projects_by_java_version[gidx].projects) :
                    projects_by_java_version[gidx].projects[i] = p

\* C34 witness: a worker of the second processed group runs with the home of
\* "17" after the first group was built with the home of "11"
C34_SecondGroupOwnHome ==
    /\ gidx = 2
    /\ \E p, q \in DOMAIN future :
          /\ future[p] = "running" /\ build_home[p] = "17"
          /\ future[q] = "collected" /\ build_home[q] = "11"
    /\ environ.PATH = <<"17", "11">>

\* the directories of the scanned tree, as absolute paths
ScannedDirs == { RootPath \o d : d \in TreeDirs }

\* C35: when find_java_projects has returned, every directory under the root
\* that holds a build descriptor and whose path does not contain "android"
\* is a returned project or lies below one.
C35_DiscoveryComplete ==
    dpc = "done" =>
        \A d \in ScannedDirs \cap descriptors :
            ~IsAndroidPath([abs |-> TRUE, comps |-> d]) =>
                \E i \in 1..Len(java_projects) :
                    \/ java_projects[i] = d
                    \/ StrictAncestor(java_projects[i], d)

\* C36: find_java_projects returns, for every tree and every form of the
\* root argument: the climbing loop stops after finitely many steps.
C36_DiscoveryTerminates == <>(dpc = "done")

Min(S) == CHOOSE x \in S : \A y \in S : x <= y

\* the 1-based lines of the source file that hold the method name and "("
DeclarationLines ==
    { j \in 1..Len(source_lines) : source_lines[j].name /\ source_lines[j].paren }

\* C37: with the declaration at 1-based line s and the braces balancing at
\* line e, no finding line L with s <= L <= e is reported as outside the
\* method's range, and every record with such a line carries the range s..e.
C37_InsideMethodAccepted ==
    (DeclarationLines # {} /\ ZeroBalanceAfter(Min(DeclarationLines)) # {}) =>
        LET s == Min(DeclarationLines)
            e == Min(ZeroBalanceAfter(s))
        IN /\ \A L \in range_rejected : ~(s <= L /\ L <= e)
           /\ \A i \in 1..Len(processed_bugs) :
                 (s <= processed_bugs[i].line_number
                    /\ processed_bugs[i].line_number <= e) =>
                     /\ processed_bugs[i].method_start_line = s
                     /\ processed_bugs[i].method_end_line = e

\* C38: in every record method_code is the file's lines method_start_line
\* through method_end_line, also when the brace balance never returns to
\* zero.
C38_CodeIsLinesStartToEnd ==
    \A i \in 1..Len(processed_bugs) :
        processed_bugs[i].method_code =
            SubSeq(source_lines, processed_bugs[i].method_start_line,
                   processed_bugs[i].method_end_line)

\* C39: every record has bug_start_line <= bug_end_line, so the range
\* [bug_start_line - method_start_line + 1, bug_end_line - method_start_line + 1]
\* is not empty and starts at 1 or more.
C39_BugRangeNotEmpty ==
    \A i \in 1..Len(processed_bugs) :
        /\ processed_bugs[i].bug_start_line <= processed_bugs[i].bug_end_line
        /\ processed_bugs[i].bug_start_line - processed_bugs[i].method_start_line + 1 >= 1

=============================================================================
